---- MODULE Spec2Model ----
(***************************************************************************)
(* Model of the connection-acceptor lifecycle of x-mod/tcpserver           *)
(* (src/tcpserver.go): Server.Open, Server.Serve, the per-connection       *)
(* goroutines and Server.Close, interleaved at the granularity of the      *)
(* statements that touch shared state.                                     *)
(***************************************************************************)
EXTENDS Integers, FiniteSets, Sequences, TLC

\* Bounds of the model.
MaxConns == 2
MaxServeCalls == 2
MaxCloseCalls == 2
MaxOpts == 3

Conns == 1..MaxConns

VARIABLES
    handler,      \* srv.handler # nil
    tlsCfg,       \* srv.tls # nil
    cfg,          \* the fields of srv the options of New set
    given,        \* per field: the last non-degenerate value an option gave (else the default)
    nOpts,        \* number of options New has applied
    listener,     \* srv.listener: "nil", "open" or "closed"
    listens,      \* number of listeners bound by net.Listen
    tlsWraps,     \* number of tls.NewListener layers around srv.listener
    lnCloses,     \* number of listener.Close() calls made so far
    openned,      \* srv.openned.HasFired()
    serving,      \* srv.serving.HasFired()
    stopped,      \* srv.stopped.HasFired()
    wgroup,       \* srv.wgroup counter
    ctxCancel,    \* srv.ctxCancel: 0 is nil, i is the cancel func of Serve call i
    cancelled,    \* the Serve calls whose child context had its cancel func invoked
    parentDone,   \* the context passed to Serve is cancelled
    pcS,          \* position of the goroutine running Serve
    serveRet,     \* value returned by the last Serve call
    serveCalls,   \* number of Serve calls made
    con,          \* connection returned by the last successful Accept (0: none)
    acceptErr,    \* err returned by the last Accept of this Serve call ("nil": none)
    lnClosedInAccept, \* Close closed the listener while this Serve call was blocked in Accept
    unit,         \* per connection: state of its handling goroutine
    pcC,          \* position of the goroutine running Close
    closeRet,     \* channel returned by the last Close call
    closeCalls,   \* number of Close calls made
    openRet,      \* value returned by the last direct Open call
    accepts,      \* number of Accept calls that returned a connection
    invoked,      \* per connection: number of srv.handler(ctx, con) invocations
    ctxSpan,      \* span carried by Serve's ctx variable, which the goroutines capture (0: none)
    handlerSpan,  \* per connection: span carried by the ctx its handler was invoked with
    finished      \* per span: number of tr.Finish() calls on it

vars == <<handler, tlsCfg, listener, listens, tlsWraps, lnCloses, openned,
          serving, stopped, wgroup, ctxCancel, cancelled, parentDone, pcS,
          serveRet, serveCalls, con, acceptErr, lnClosedInAccept, unit, pcC,
          closeRet, closeCalls, openRet, cfg, given, nOpts, accepts, invoked,
          ctxSpan, handlerSpan, finished>>

cfgVars == <<handler, tlsCfg, cfg, given, nOpts>>
histVars == <<accepts, invoked>>
traceVars == <<ctxSpan, handlerSpan, finished>>
lnVars == <<listener, listens, tlsWraps>>
latchVars == <<openned, serving, stopped>>
ctxVars == <<ctxCancel, cancelled, parentDone>>
serveVars == <<pcS, serveRet, serveCalls, con, acceptErr>>
closeVars == <<pcC, closeRet, closeCalls>>

\* The runtime state of a Server as New creates it, for the fields c.
Created(c) ==
    /\ cfg = c
    /\ handler = (c.handler # "nil")
    /\ tlsCfg = (c.tls # "nil")
    /\ listener = IF c.listener # "nil" THEN "open" ELSE "nil"
    /\ listens = 0
    /\ tlsWraps = 0
    /\ lnCloses = 0
    /\ openned = FALSE
    /\ serving = FALSE
    /\ stopped = FALSE
    /\ wgroup = 0
    /\ ctxCancel = 0
    /\ cancelled = {}
    /\ parentDone = FALSE
    /\ pcS = "idle"
    /\ serveRet = "none"
    /\ serveCalls = 0
    /\ con = 0
    /\ acceptErr = "nil"
    /\ lnClosedInAccept = FALSE
    /\ unit = [d \in Conns |-> "none"]
    /\ pcC = "idle"
    /\ closeRet = "none"
    /\ closeCalls = 0
    /\ openRet = "none"
    /\ accepts = 0
    /\ invoked = [d \in Conns |-> 0]
    /\ ctxSpan = 0
    /\ handlerSpan = [d \in Conns |-> 0]
    /\ finished = [d \in Conns |-> 0]

\* The fields of the Server literal in New, before any option is applied.
Defaults ==
    [name |-> "tcpserver", network |-> "tcp", address |-> "", tls |-> "nil",
     listener |-> "nil", handler |-> "nil", traced |-> FALSE]

\* New(opts...) has returned a server without tracing: Listener(ln) may
\* have supplied a listener, TCPHandler(h) a handler, TLSConfig(c) a TLS
\* config.
Init ==
    /\ \E c \in [name : {"tcpserver"}, network : {"tcp"}, address : {""},
                  tls : {"nil", "tls1"}, listener : {"nil", "ln1"},
                  handler : {"nil", "h1"}, traced : {FALSE}] : Created(c)
    /\ given = cfg
    /\ nOpts = 0

\* New(..., NetTrace(true)) has returned: a server with tracing.
InitTrace ==
    /\ \E h \in {"nil", "h1"} :
          Created([Defaults EXCEPT !.handler = h, !.traced = TRUE])
    /\ given = cfg
    /\ nOpts = 0

\* serv := &Server{...}: New starts from the defaults, no option applied.
InitNew ==
    /\ Created(Defaults)
    /\ given = Defaults
    /\ nOpts = 0

\* The values the options are given in the model; "" and "nil" are the
\* degenerate ones.
Strings == {"", "a", "b"}
Pointers == {"nil", "p1", "p2"}

\* for _, opt := range opts { opt(serv) }: one option has set the fields to
\* c; g is the record of the last non-degenerate values given so far.
Applied(c, g) ==
    /\ nOpts < MaxOpts
    /\ nOpts' = nOpts + 1
    /\ cfg' = c
    /\ given' = g
    /\ handler' = (c.handler # "nil")
    /\ tlsCfg' = (c.tls # "nil")
    /\ listener' = IF c.listener # "nil" THEN "open" ELSE "nil"
    /\ UNCHANGED <<histVars, traceVars, listens, tlsWraps, lnCloses,
                   latchVars, wgroup, ctxVars, serveVars, lnClosedInAccept,
                   unit, closeVars, openRet>>

\* Name(name): srv.name = name
Name(v) ==
    Applied([cfg EXCEPT !.name = v],
            IF v = "" THEN given ELSE [given EXCEPT !.name = v])

\* Network(inet): if len(inet) != 0 { srv.network = inet }
Network(v) ==
    Applied(IF v # "" THEN [cfg EXCEPT !.network = v] ELSE cfg,
            IF v = "" THEN given ELSE [given EXCEPT !.network = v])

\* Address(addr): if len(addr) != 0 { srv.address = addr }
Address(v) ==
    Applied(IF v # "" THEN [cfg EXCEPT !.address = v] ELSE cfg,
            IF v = "" THEN given ELSE [given EXCEPT !.address = v])

\* TLSConfig(tls): srv.tls = tls
TLSConfig(v) ==
    Applied([cfg EXCEPT !.tls = v],
            IF v = "nil" THEN given ELSE [given EXCEPT !.tls = v])

\* Listener(ln): if ln != nil { srv.listener = ln }
Listener(v) ==
    Applied(IF v # "nil" THEN [cfg EXCEPT !.listener = v] ELSE cfg,
            IF v = "nil" THEN given ELSE [given EXCEPT !.listener = v])

\* TCPHandler(h): if h != nil { srv.handler = h }
TCPHandler(v) ==
    Applied(IF v # "nil" THEN [cfg EXCEPT !.handler = v] ELSE cfg,
            IF v = "nil" THEN given ELSE [given EXCEPT !.handler = v])

\* NetTrace(flag): srv.traced = flag
NetTrace(v) ==
    Applied([cfg EXCEPT !.traced = v], [given EXCEPT !.traced = v])

\* New applies the next of its options.
NextNew ==
    \/ \E v \in Strings : Name(v)
    \/ \E v \in Strings : Network(v)
    \/ \E v \in Strings : Address(v)
    \/ \E v \in Pointers : TLSConfig(v)
    \/ \E v \in Pointers : Listener(v)
    \/ \E v \in Pointers : TCPHandler(v)
    \/ \E v \in BOOLEAN : NetTrace(v)

SpecNew == InitNew /\ [][NextNew]_vars

\* The values Open can return.
OpenResults == {"nil", "ErrHandlerRequired", "ErrListen"}

\* Variant of CtxDone: the child context is not derived from the context
\* passed to Serve, so only its own cancel func ends it.
CtxDone_ChildOnly(i) == i \in cancelled

\* ctx.Done() of the child context derived by Serve call i is closed.
CtxDone(i) == parentDone \/ i \in cancelled

\* listener.Close(): the listener is closed (a second Close only errors).
ListenerClose ==
    /\ listener' = IF listener = "nil" THEN "nil" ELSE "closed"
    /\ lnCloses' = lnCloses + 1

\* Variant of Open: the listener is bound before the handler is checked.
Open_ListenFirst(ret) ==
    IF openned
    THEN ret = "nil" /\ UNCHANGED <<lnVars, openned>>
    ELSE \/ /\ listener = "nil"
            /\ ret = "ErrListen"
            /\ UNCHANGED <<lnVars, openned>>
         \/ /\ listener' = IF listener = "nil" THEN "open" ELSE listener
            /\ listens' = IF listener = "nil" THEN listens + 1 ELSE listens
            /\ IF ~handler
               THEN ret = "ErrHandlerRequired" /\ UNCHANGED <<tlsWraps, openned>>
               ELSE /\ ret = "nil"
                    /\ tlsWraps' = IF tlsCfg THEN tlsWraps + 1 ELSE tlsWraps
                    /\ openned' = TRUE

\* Variant of Open: no early return when Opened has fired.
Open_NoGuard(ret) ==
    IF ~handler
    THEN ret = "ErrHandlerRequired" /\ UNCHANGED <<lnVars, openned>>
    ELSE \/ /\ listener = "nil"
            /\ ret = "ErrListen"
            /\ UNCHANGED <<lnVars, openned>>
         \/ /\ ret = "nil"
            /\ listener' = IF listener = "nil" THEN "open" ELSE listener
            /\ listens' = IF listener = "nil" THEN listens + 1 ELSE listens
            /\ tlsWraps' = IF tlsCfg THEN tlsWraps + 1 ELSE tlsWraps
            /\ openned' = TRUE

\* Variant of Open: net.Listen is called whether or not a listener is set.
Open_AlwaysListens(ret) ==
    IF openned
    THEN ret = "nil" /\ UNCHANGED <<lnVars, openned>>
    ELSE IF ~handler
    THEN ret = "ErrHandlerRequired" /\ UNCHANGED <<lnVars, openned>>
    ELSE \/ /\ ret = "ErrListen"
            /\ UNCHANGED <<lnVars, openned>>
         \/ /\ ret = "nil"
            /\ listener' = "open"
            /\ listens' = listens + 1
            /\ tlsWraps' = IF tlsCfg THEN tlsWraps + 1 ELSE tlsWraps
            /\ openned' = TRUE

\* Server.Open, returning ret.
Open(ret) ==
    IF openned
    THEN ret = "nil" /\ UNCHANGED <<lnVars, openned>>
    ELSE IF ~handler
    THEN ret = "ErrHandlerRequired" /\ UNCHANGED <<lnVars, openned>>
    ELSE \/ /\ listener = "nil"
            /\ ret = "ErrListen"
            /\ UNCHANGED <<lnVars, openned>>
         \/ /\ ret = "nil"
            /\ listener' = IF listener = "nil" THEN "open" ELSE listener
            /\ listens' = IF listener = "nil" THEN listens + 1 ELSE listens
            /\ tlsWraps' = IF tlsCfg THEN tlsWraps + 1 ELSE tlsWraps
            /\ openned' = TRUE

\* A direct call of srv.Open() by the embedding program.
OpenCall ==
    /\ \E r \in OpenResults : Open(r) /\ openRet' = r
    /\ UNCHANGED <<cfgVars, histVars, traceVars, lnCloses, serving, stopped, wgroup, ctxVars,
                   serveVars, lnClosedInAccept, unit, closeVars>>

\* The embedding program cancels the context it passed to Serve.
CancelParent ==
    /\ ~parentDone
    /\ parentDone' = TRUE
    /\ UNCHANGED <<cfgVars, histVars, traceVars, lnVars, lnCloses, latchVars, wgroup, ctxCancel,
                   cancelled, serveVars, lnClosedInAccept, unit, closeVars,
                   openRet>>

\* Serve is called: a call runs after the previous one returned.
ServeCall ==
    /\ pcS \in {"idle", "returned"}
    /\ serveCalls < MaxServeCalls
    /\ serveCalls' = serveCalls + 1
    /\ pcS' = "open"
    /\ serveRet' = "none"
    /\ con' = 0
    /\ acceptErr' = "nil"
    /\ lnClosedInAccept' = FALSE
    /\ UNCHANGED <<cfgVars, histVars, traceVars, lnVars, lnCloses, latchVars, wgroup, ctxVars,
                   unit, closeVars, openRet>>

\* Variant of ServeOpen: the error of Open is dropped and Serve goes on.
ServeOpen_IgnoresError ==
    /\ pcS = "open"
    /\ \E r \in OpenResults : Open(r)
    /\ pcS' = "fire_serving"
    /\ UNCHANGED <<cfgVars, histVars, traceVars, lnCloses, serving, stopped, wgroup, ctxVars,
                   serveRet, serveCalls, con, acceptErr, lnClosedInAccept,
                   unit, closeVars, openRet>>

\* if err := srv.Open(); err != nil { return err }
ServeOpen ==
    /\ pcS = "open"
    /\ \E r \in OpenResults :
          /\ Open(r)
          /\ IF r # "nil"
             THEN pcS' = "returned" /\ serveRet' = r
             ELSE pcS' = "fire_serving" /\ serveRet' = serveRet
    /\ UNCHANGED <<cfgVars, histVars, traceVars, lnCloses, serving, stopped, wgroup, ctxVars,
                   serveCalls, con, acceptErr, lnClosedInAccept, unit, closeVars,
                   openRet>>

\* The two defers are registered; srv.serving.Fire()
ServeFireServing ==
    /\ pcS = "fire_serving"
    /\ serving' = TRUE
    /\ pcS' = "set_cancel"
    /\ UNCHANGED <<cfgVars, histVars, traceVars, lnVars, lnCloses, openned, stopped, wgroup,
                   ctxVars, serveRet, serveCalls, con, acceptErr, lnClosedInAccept,
                   unit, closeVars, openRet>>

\* ctx, cancel := context.WithCancel(ctx); srv.ctxCancel = cancel
ServeSetCancel ==
    /\ pcS = "set_cancel"
    /\ ctxCancel' = serveCalls
    /\ pcS' = "select"
    /\ UNCHANGED <<cfgVars, histVars, traceVars, lnVars, lnCloses, latchVars, wgroup, cancelled,
                   parentDone, serveRet, serveCalls, con, acceptErr, lnClosedInAccept,
                   unit, closeVars, openRet>>

\* select { case <-ctx.Done(): return ctx.Err(); default: ... Accept() }
\* The default case is taken only when ctx.Done() is not ready.
ServeSelect ==
    /\ pcS = "select"
    /\ IF CtxDone(serveCalls)
       THEN pcS' = "defer_stopped" /\ serveRet' = "Canceled"
       ELSE pcS' = "accept" /\ serveRet' = serveRet
    /\ UNCHANGED <<cfgVars, histVars, traceVars, lnVars, lnCloses, latchVars, wgroup, ctxVars,
                   serveCalls, con, acceptErr, lnClosedInAccept, unit, closeVars,
                   openRet>>

\* Variant of Temporary: no accept error is taken as temporary.
Temporary_Never(err) == FALSE

\* ne.Temporary() of an accept error.
Temporary(err) == err = "ErrTemporary"

\* The connection srv.listener.Accept() can return: the next one to arrive
\* (connections are numbered in arrival order), none once the listener is
\* closed.
AcceptConns ==
    IF listener = "closed"
    THEN {}
    ELSE {c \in Conns : unit[c] = "none" /\ \A d \in 1..(c - 1) : unit[d] # "none"}

\* The errors srv.listener.Accept() can return: a closed listener only
\* yields the (non temporary) closed error.
AcceptErrors ==
    IF listener = "closed" THEN {"ErrClosed"} ELSE {"ErrTemporary", "ErrAccept"}

\* Variant of AcceptFailed: the closed-listener error is taken as a clean
\* stop and Serve returns nil for it.
AcceptFailed_ClosedIsNil(err) == IF err = "ErrClosed" THEN "nil" ELSE err

\* return err: what Serve returns for the terminal accept error err.
AcceptFailed(err) == err

\* con, err := srv.listener.Accept() returns, and err is classified.
ServeAccept ==
    /\ pcS = "accept"
    /\ \/ \E c \in AcceptConns :
             /\ con' = c
             /\ acceptErr' = "nil"
             /\ unit' = [unit EXCEPT ![c] = "accepted"]
             /\ pcS' = "add"
             /\ accepts' = accepts + 1
             /\ UNCHANGED serveRet
       \/ \E err \in AcceptErrors :
             /\ acceptErr' = err
             /\ UNCHANGED accepts
             /\ IF Temporary(err)
                THEN /\ pcS' = "select"
                     /\ UNCHANGED <<con, unit, serveRet>>
                ELSE /\ pcS' = "defer_stopped"
                     /\ serveRet' = AcceptFailed(err)
                     /\ UNCHANGED <<con, unit>>
    /\ UNCHANGED <<cfgVars, invoked, traceVars, lnVars, lnCloses, latchVars,
                   wgroup, ctxVars, serveCalls, lnClosedInAccept, closeVars,
                   openRet>>

\* srv.wgroup.Add(1)
ServeAdd ==
    /\ pcS = "add"
    /\ wgroup' = wgroup + 1
    /\ pcS' = "go"
    /\ UNCHANGED <<cfgVars, histVars, traceVars, lnVars, lnCloses, latchVars, ctxVars, serveRet,
                   serveCalls, con, acceptErr, lnClosedInAccept, unit, closeVars,
                   openRet>>

\* go func() { ... }(): the connection's goroutine is created.
ServeGo ==
    /\ pcS = "go"
    /\ unit' = [unit EXCEPT ![con] = "spawned"]
    /\ pcS' = "select"
    /\ UNCHANGED <<cfgVars, histVars, traceVars, lnVars, lnCloses, latchVars, wgroup, ctxVars,
                   serveRet, serveCalls, con, acceptErr, lnClosedInAccept, closeVars,
                   openRet>>

\* Deferred calls run last in, first out: defer srv.stopped.Fire() was
\* registered after defer srv.listener.Close(), so it runs first.
ServeDeferStopped ==
    /\ pcS = "defer_stopped"
    /\ stopped' = TRUE
    /\ pcS' = "defer_close"
    /\ UNCHANGED <<cfgVars, histVars, traceVars, lnVars, lnCloses, openned, serving, wgroup,
                   ctxVars, serveRet, serveCalls, con, acceptErr, lnClosedInAccept,
                   unit, closeVars, openRet>>

\* Variant of ServeDeferClose: Serve returns without closing the listener.
ServeDeferClose_LeavesOpen ==
    /\ pcS = "defer_close"
    /\ pcS' = "returned"
    /\ UNCHANGED <<cfgVars, histVars, traceVars, lnVars, lnCloses, latchVars,
                   wgroup, ctxVars, serveRet, serveCalls, con, acceptErr,
                   lnClosedInAccept, unit, closeVars, openRet>>

\* The deferred srv.listener.Close(), then Serve returns serveRet.
ServeDeferClose ==
    /\ pcS = "defer_close"
    /\ ListenerClose
    /\ pcS' = "returned"
    /\ UNCHANGED <<cfgVars, histVars, traceVars, listens, tlsWraps, latchVars, wgroup, ctxVars,
                   serveRet, serveCalls, con, acceptErr, lnClosedInAccept, unit,
                   closeVars, openRet>>

\* The connection's goroutine starts on a server with tracing:
\* tr := trace.New(...); ctx = trace.NewContext(ctx, tr). The ctx assigned is
\* the variable of Serve that every goroutine's closure captures.
HandlerAttach(c) ==
    /\ unit[c] = "spawned"
    /\ cfg.traced
    /\ ctxSpan' = c
    /\ unit' = [unit EXCEPT ![c] = "attached"]
    /\ UNCHANGED <<cfgVars, histVars, handlerSpan, finished, lnVars, lnCloses,
                   latchVars, wgroup, ctxVars, serveVars, lnClosedInAccept,
                   closeVars, openRet>>

\* Variant of HandlerStart: a handler that failed is invoked again.
HandlerStart_Retries(c) ==
    /\ unit[c] \in {IF cfg.traced THEN "attached" ELSE "spawned", "failed"}
    /\ unit' = [unit EXCEPT ![c] = "running"]
    /\ invoked' = [invoked EXCEPT ![c] = @ + 1]
    /\ handlerSpan' = [handlerSpan EXCEPT ![c] = ctxSpan]
    /\ UNCHANGED <<cfgVars, accepts, ctxSpan, finished, lnVars, lnCloses,
                   latchVars, wgroup, ctxVars, serveVars, lnClosedInAccept,
                   closeVars, openRet>>

\* srv.handler(ctx, con) is invoked, with the value ctx holds at that time.
HandlerStart(c) ==
    /\ unit[c] = IF cfg.traced THEN "attached" ELSE "spawned"
    /\ unit' = [unit EXCEPT ![c] = "running"]
    /\ invoked' = [invoked EXCEPT ![c] = @ + 1]
    /\ handlerSpan' = [handlerSpan EXCEPT ![c] = ctxSpan]
    /\ UNCHANGED <<cfgVars, accepts, ctxSpan, finished, lnVars, lnCloses,
                   latchVars, wgroup, ctxVars, serveVars, lnClosedInAccept,
                   closeVars, openRet>>

\* Variant of HandlerReturn: a handler's error cancels the serve context.
HandlerReturn_FailureCancels(c) ==
    /\ unit[c] = "running"
    /\ \E res \in {"ok", "failed"} :
          /\ unit' = [unit EXCEPT ![c] = res]
          /\ cancelled' = IF res = "failed" /\ ctxCancel # 0
                          THEN cancelled \cup {ctxCancel}
                          ELSE cancelled
    /\ finished' = IF ctxSpan # 0
                   THEN [finished EXCEPT ![ctxSpan] = @ + 1]
                   ELSE finished
    /\ wgroup' = wgroup - 1
    /\ UNCHANGED <<cfgVars, histVars, ctxSpan, handlerSpan, lnVars, lnCloses,
                   latchVars, ctxCancel, parentDone, serveVars,
                   lnClosedInAccept, closeVars, openRet>>

\* Variant of HandlerReturn: srv.wgroup.Done() is not deferred and is
\* skipped when the handler fails.
HandlerReturn_NoDoneOnError(c) ==
    /\ unit[c] = "running"
    /\ \E res \in {"ok", "failed"} :
          /\ unit' = [unit EXCEPT ![c] = res]
          /\ wgroup' = IF res = "ok" THEN wgroup - 1 ELSE wgroup
    /\ finished' = IF ctxSpan # 0
                   THEN [finished EXCEPT ![ctxSpan] = @ + 1]
                   ELSE finished
    /\ UNCHANGED <<cfgVars, histVars, ctxSpan, handlerSpan, lnVars, lnCloses,
                   latchVars, ctxVars, serveVars, lnClosedInAccept, closeVars,
                   openRet>>

\* The handler returns (nil or an error, which is only logged); the span
\* trace.FromContext(ctx) finds in ctx, if any, is finished; the deferred
\* srv.wgroup.Done() runs.
HandlerReturn(c) ==
    /\ unit[c] = "running"
    /\ \E res \in {"ok", "failed"} : unit' = [unit EXCEPT ![c] = res]
    /\ finished' = IF ctxSpan # 0
                   THEN [finished EXCEPT ![ctxSpan] = @ + 1]
                   ELSE finished
    /\ wgroup' = wgroup - 1
    /\ UNCHANGED <<cfgVars, histVars, ctxSpan, handlerSpan, lnVars, lnCloses,
                   latchVars, ctxVars, serveVars, lnClosedInAccept, closeVars,
                   openRet>>

\* Variant of CloseCall: the guard reads the Opened latch.
CloseCall_ChecksOpenned ==
    /\ pcC \in {"idle", "returned"}
    /\ closeCalls < MaxCloseCalls
    /\ closeCalls' = closeCalls + 1
    /\ IF openned
       THEN pcC' = "close_listener" /\ closeRet' = "none"
       ELSE pcC' = "returned" /\ closeRet' = "event.Done"
    /\ UNCHANGED <<cfgVars, histVars, traceVars, lnVars, lnCloses, latchVars, wgroup, ctxVars,
                   serveVars, lnClosedInAccept, unit, openRet>>

\* Close is called: if srv.serving.HasFired() { ... } return event.Done()
CloseCall ==
    /\ pcC \in {"idle", "returned"}
    /\ closeCalls < MaxCloseCalls
    /\ closeCalls' = closeCalls + 1
    /\ IF serving
       THEN pcC' = "close_listener" /\ closeRet' = "none"
       ELSE pcC' = "returned" /\ closeRet' = "event.Done"
    /\ UNCHANGED <<cfgVars, histVars, traceVars, lnVars, lnCloses, latchVars, wgroup, ctxVars,
                   serveVars, lnClosedInAccept, unit, openRet>>

\* Variant of CloseListener: Close does not close the listener.
CloseListener_Skipped ==
    /\ pcC = "close_listener"
    /\ pcC' = "cancel"
    /\ UNCHANGED <<cfgVars, histVars, traceVars, lnVars, lnCloses, latchVars,
                   wgroup, ctxVars, serveVars, lnClosedInAccept, unit,
                   closeRet, closeCalls, openRet>>

\* srv.listener.Close()
CloseListener ==
    /\ pcC = "close_listener"
    /\ ListenerClose
    /\ lnClosedInAccept' = (lnClosedInAccept \/ (pcS = "accept" /\ listener = "open"))
    /\ pcC' = "cancel"
    /\ UNCHANGED <<cfgVars, histVars, traceVars, listens, tlsWraps, latchVars, wgroup, ctxVars,
                   serveVars, unit, closeRet, closeCalls, openRet>>

\* srv.ctxCancel(): calling a nil func value panics.
CloseCancel ==
    /\ pcC = "cancel"
    /\ IF ctxCancel = 0
       THEN pcC' = "panicked" /\ cancelled' = cancelled
       ELSE pcC' = "wait" /\ cancelled' = cancelled \cup {ctxCancel}
    /\ UNCHANGED <<cfgVars, histVars, traceVars, lnVars, lnCloses, latchVars, wgroup, ctxCancel,
                   parentDone, serveVars, lnClosedInAccept, unit, closeRet,
                   closeCalls, openRet>>

\* srv.wgroup.Wait() returns once the counter is zero.
CloseWait ==
    /\ pcC = "wait"
    /\ wgroup = 0
    /\ pcC' = "return"
    /\ UNCHANGED <<cfgVars, histVars, traceVars, lnVars, lnCloses, latchVars, wgroup, ctxVars,
                   serveVars, lnClosedInAccept, unit, closeRet, closeCalls,
                   openRet>>

\* return srv.stopped.Done()
CloseReturn ==
    /\ pcC = "return"
    /\ pcC' = "returned"
    /\ closeRet' = "stopped.Done"
    /\ UNCHANGED <<cfgVars, histVars, traceVars, lnVars, lnCloses, latchVars, wgroup, ctxVars,
                   serveVars, lnClosedInAccept, unit, closeCalls, openRet>>

\* The channel Close returned is closed (its receive does not block).
CloseSignalSatisfied ==
    \/ closeRet = "event.Done"
    \/ closeRet = "stopped.Done" /\ stopped

\* Close has taken its serving branch (a close was requested).
CloseRequested ==
    \/ pcC \in {"close_listener", "cancel", "wait", "return", "panicked"}
    \/ pcC = "returned" /\ closeRet = "stopped.Done"

\* The number of handler invocations started, over the connections 1..n.
RECURSIVE InvokedUpTo(_)
InvokedUpTo(n) == IF n = 0 THEN 0 ELSE invoked[n] + InvokedUpTo(n - 1)

\* Accept returned the connection and its goroutine has not yet invoked the
\* handler.
UnitNotYetInvoked(c) == unit[c] \in {"accepted", "spawned", "attached"}

\* srv.wgroup.Add(1) has run for the connection and its srv.wgroup.Done()
\* has not.
UnitCounted(c) ==
    \/ unit[c] \in {"spawned", "attached", "running"}
    \/ unit[c] = "accepted" /\ pcS = "go" /\ con = c

\* Listener(ln) supplied the listener.
ListenerSupplied == cfg.listener # "nil"

\* The connection's handling unit was dispatched and has not returned.
UnitRunning(c) == unit[c] \in {"spawned", "attached", "running"}

Next ==
    \/ OpenCall
    \/ CancelParent
    \/ ServeCall
    \/ ServeOpen
    \/ ServeFireServing
    \/ ServeSetCancel
    \/ ServeSelect
    \/ ServeAccept
    \/ ServeAdd
    \/ ServeGo
    \/ ServeDeferStopped
    \/ ServeDeferClose
    \/ \E c \in Conns : HandlerStart(c)
    \/ \E c \in Conns : HandlerReturn(c)
    \/ CloseCall
    \/ CloseListener
    \/ CloseCancel
    \/ CloseWait
    \/ CloseReturn

Spec == Init /\ [][Next]_vars

\* Scheduling: a goroutine that can take its next step eventually takes it.
\* Serve's Accept is only sure to return once the listener is closed (no
\* connection need ever arrive), a handler that was started returns, and
\* nothing obliges the embedding program to call Open, Serve or Close or to
\* cancel its context.
Fairness ==
    /\ WF_vars(ServeOpen)
    /\ WF_vars(ServeFireServing)
    /\ WF_vars(ServeSetCancel)
    /\ WF_vars(ServeSelect)
    /\ WF_vars(ServeAccept /\ listener = "closed")
    /\ WF_vars(ServeAdd)
    /\ WF_vars(ServeGo)
    /\ WF_vars(ServeDeferStopped)
    /\ WF_vars(ServeDeferClose)
    /\ \A c \in Conns : WF_vars(HandlerStart(c))
    /\ \A c \in Conns : WF_vars(HandlerReturn(c))
    /\ WF_vars(CloseListener)
    /\ WF_vars(CloseCancel)
    /\ WF_vars(CloseWait)
    /\ WF_vars(CloseReturn)

FairSpec == Init /\ [][Next]_vars /\ Fairness

\* The steps of a server with tracing: its goroutines also attach a span.
NextTrace ==
    \/ Next
    \/ \E c \in Conns : HandlerAttach(c)

SpecTrace == InitTrace /\ [][NextTrace]_vars

(***************************************************************************)
(* Properties                                                              *)
(***************************************************************************)

\* C1: Opened fires before Serving and Serving before Stopped: a latch fires
\* only in a state where the one before it has fired, and a fired latch
\* never returns to not-fired, whatever calls of Open, Serve or Close follow.
C1_LatchOrder ==
    [][ /\ (~serving /\ serving') => openned
        /\ (~stopped /\ stopped') => serving
        /\ serving' => openned'
        /\ stopped' => serving'
        /\ openned => openned'
        /\ serving => serving'
        /\ stopped => stopped' ]_vars

\* A second Serve call and a Close have returned on a server with a handler,
\* all three latches fired.
C1_Witness ==
    /\ handler /\ openned /\ serving /\ stopped
    /\ serveCalls = 2 /\ pcS = "returned"
    /\ closeCalls >= 1 /\ pcC = "returned"
    /\ openRet = "nil"

\* C2: once Close has returned the Stopped signal, no dispatched handling
\* unit is still running: the handler of every connection dispatched while
\* serving has returned.
C2_CloseJoinsHandlers ==
    (pcC = "returned" /\ closeRet = "stopped.Done")
        => \A c \in Conns : ~UnitRunning(c)

\* C3: Stopped has fired only if the listener is closed.
C3_ListenerClosedBeforeStopped == stopped => listener = "closed"

\* C4: once a close was requested, Stopped has fired only if no dispatched
\* handling unit is still running.
C4_StoppedAfterDrain ==
    (CloseRequested /\ stopped) => \A c \in Conns : ~UnitRunning(c)

\* C5: whenever Serving has fired the cancellation handle is set, and Close
\* never invokes an unset handle.
C5_HandleSetWhenServing ==
    /\ serving => ctxCancel # 0
    /\ pcC # "panicked"

\* C6: when Open fails inside Serve, Serve returns Open's error at once (the
\* loop is not entered), no latch has fired and nothing was changed; a nil
\* handler always fails it, with the configuration error, and never binds a
\* listener.
C6_OpenFailure ==
    [][ /\ (pcS = "open" /\ pcS' = "returned") =>
              /\ serveRet' = IF handler THEN "ErrListen" ELSE "ErrHandlerRequired"
              /\ ~openned' /\ ~serving' /\ ~stopped'
              /\ UNCHANGED <<lnVars, lnCloses, wgroup, ctxVars, unit, acceptErr>>
        /\ (pcS = "open" /\ pcS' # "open" /\ ~handler) => pcS' = "returned"
        /\ ~handler' => (listens' = 0 /\ ~openned') ]_vars

\* Serve has returned the configuration error of a server without handler
\* and without listener.
C6_Witness ==
    /\ ~handler /\ pcS = "returned" /\ serveRet = "ErrHandlerRequired"
    /\ listener = "nil" /\ listens = 0 /\ ~openned

\* C7: when Accept returns a temporary error the loop goes to its next
\* iteration and Stopped is not fired; when it returns another error the
\* loop ends, Serve returns that error and Stopped has fired by then.
C7_AcceptErrors ==
    [][ /\ (pcS = "accept" /\ pcS' # "accept" /\ acceptErr' = "ErrTemporary") =>
              (pcS' = "select" /\ UNCHANGED <<stopped, serveRet, listener>>)
        /\ (pcS = "accept" /\ pcS' # "accept" /\ acceptErr' \in {"ErrAccept", "ErrClosed"}) =>
              (pcS' = "defer_stopped" /\ serveRet' = acceptErr')
        /\ (pcS \in {"defer_stopped", "defer_close"} /\ pcS' # pcS) =>
              (serveRet' = serveRet /\ pcS' \in {"defer_close", "returned"})
        /\ (pcS' = "returned" /\ serveRet' \in {"ErrAccept", "ErrClosed"}) => stopped' ]_vars

\* Accept returned a temporary error after a connection was dispatched, and
\* the loop is back at its select with Stopped not fired.
C7_Witness ==
    /\ pcS = "select" /\ acceptErr = "ErrTemporary"
    /\ serving /\ ~stopped /\ serveRet = "none"
    /\ \E c \in Conns : UnitRunning(c)

\* C8: when the context passed to Serve is cancelled, the loop's next
\* cancellation check ends the loop without another Accept, and Serve
\* returns the cancellation error.
C8_CancelWhileIdle ==
    [][ /\ (pcS = "select" /\ pcS' # "select" /\ parentDone) =>
              (pcS' = "defer_stopped" /\ serveRet' = "Canceled")
        /\ (pcS \in {"defer_stopped", "defer_close"} /\ pcS' # pcS) =>
              (serveRet' = serveRet /\ pcS' \in {"defer_close", "returned"}) ]_vars

\* Serve has returned the cancellation error after the context passed to it
\* was cancelled, no Close having cancelled the child context.
C8_Witness ==
    /\ pcS = "returned" /\ serveRet = "Canceled"
    /\ parentDone /\ cancelled = {} /\ closeCalls = 0

\* C9: a Close call on a server whose Serving latch has not fired returns
\* event.Done() at once and changes nothing else.
C9_CloseBeforeServing ==
    [][ (closeCalls' # closeCalls /\ ~serving) =>
            /\ pcC' = "returned"
            /\ closeRet' = "event.Done"
            /\ UNCHANGED <<cfgVars, histVars, traceVars, lnVars, lnCloses, latchVars, wgroup,
                           ctxVars, serveVars, lnClosedInAccept, unit,
                           openRet>> ]_vars

\* Close has returned event.Done() on an opened server that is not serving;
\* its listener is open and was never closed.
C9_Witness ==
    /\ pcC = "returned" /\ closeRet = "event.Done"
    /\ openned /\ ~serving /\ listener = "open" /\ lnCloses = 0

C11_HandlerErrorIsLocal ==
    [][ /\ \A c \in Conns :
              (unit[c] = "running" /\ unit'[c] = "failed") =>
                  /\ UNCHANGED <<serveVars, latchVars, lnVars, lnCloses,
                                 ctxVars, closeVars, accepts, invoked>>
                  /\ \A d \in Conns \ {c} : unit'[d] = unit[d]
        /\ \A c \in Conns :
              unit[c] = "failed" => (unit'[c] = "failed" /\ invoked'[c] = invoked[c])
        /\ serveRet' \in {"none", "ErrHandlerRequired", "ErrListen",
                          "Canceled", "ErrAccept", "ErrClosed"} ]_vars

\* A handler has failed while another one is running and the loop is
\* blocked in Accept, Stopped not fired.
C11_Witness ==
    /\ unit[1] = "failed" /\ unit[2] = "running"
    /\ pcS = "accept" /\ serving /\ ~stopped /\ serveRet = "none"

\* C12 as stated: the number of handler invocations started equals the
\* number of successful accepts in every state.
C12_InvocationsEqualAccepts == InvokedUpTo(MaxConns) = accepts

\* C12 amended: the handler is invoked at most once per connection and only
\* for a connection Accept returned; the number of invocations started never
\* exceeds the number of successful accepts, falls short of it exactly by the
\* connections whose goroutine has not yet reached its handler call, and so
\* equals it whenever there is no such connection.
C12_InvokedOncePerAccept ==
    /\ \A c \in Conns : invoked[c] <= 1
    /\ \A c \in Conns : invoked[c] = 1 => unit[c] \in {"running", "ok", "failed"}
    /\ accepts = Cardinality({c \in Conns : unit[c] # "none"})
    /\ InvokedUpTo(MaxConns) =
           accepts - Cardinality({c \in Conns : UnitNotYetInvoked(c)})

\* Two connections were accepted and both handlers were invoked, one of
\* them having failed; Serve has returned.
C12_Witness ==
    /\ accepts = 2 /\ invoked[1] = 1 /\ invoked[2] = 1
    /\ unit[1] = "failed" /\ unit[2] = "running"
    /\ pcS = "returned"

\* C13: over one Serve call and one Close call the listener is closed at
\* most once.
C13_ListenerClosedOnce ==
    (serveCalls <= 1 /\ closeCalls <= 1) => lnCloses <= 1

\* C14: once Opened has fired no step binds a listener or adds a TLS layer
\* and Opened stays fired; an Open call, direct or inside Serve, returns nil
\* and changes nothing else.
C14_OpenIdempotent ==
    [][ /\ openned =>
              /\ openned' /\ listens' = listens /\ tlsWraps' = tlsWraps
              /\ listener' \in {listener, "closed"}
        /\ (openned /\ openRet' # openRet) =>
              /\ openRet' = "nil"
              /\ UNCHANGED <<cfgVars, histVars, traceVars, lnVars, lnCloses,
                             latchVars, wgroup, ctxVars, serveVars,
                             lnClosedInAccept, unit, closeVars>>
        /\ (openned /\ pcS = "open" /\ pcS' # "open") =>
              /\ pcS' = "fire_serving"
              /\ UNCHANGED <<cfgVars, histVars, traceVars, lnVars, lnCloses,
                             latchVars, wgroup, ctxVars, serveRet, unit,
                             closeVars, openRet>> ]_vars

\* The second Serve call has passed its Open call on a server with a TLS
\* configuration that a direct Open call had opened: one listener bound,
\* one TLS layer.
C14_Witness ==
    /\ serveCalls = 2 /\ pcS = "fire_serving"
    /\ openned /\ openRet = "nil"
    /\ tlsCfg /\ tlsWraps = 1 /\ listens = 1

\* C15 as stated: with a supplied listener Open returns no error, whatever
\* the rest of the configuration, and the listener is neither replaced nor
\* wrapped.
C15_SuppliedListenerOpenIsNoOp ==
    ListenerSupplied =>
        /\ openRet \in {"none", "nil"}
        /\ serveRet \notin {"ErrHandlerRequired", "ErrListen"}
        /\ listens = 0
        /\ tlsWraps = 0

\* C15 amended: with a supplied listener Open binds no listener and never
\* fails to bind; with a handler it returns nil, fires Opened and wraps the
\* supplied listener in the TLS layer once when a TLS configuration is set;
\* without a handler it returns the configuration error and leaves the
\* listener and the latch alone.
C15_SuppliedListenerKept ==
    ListenerSupplied =>
        /\ listens = 0
        /\ listener # "nil"
        /\ openRet # "ErrListen" /\ serveRet # "ErrListen"
        /\ handler => (openRet \in {"none", "nil"} /\ serveRet # "ErrHandlerRequired")
        /\ ~handler =>
              /\ openRet \in {"none", "ErrHandlerRequired"}
              /\ serveRet \in {"none", "ErrHandlerRequired"}
              /\ ~openned /\ listener = "open"
        /\ tlsWraps = IF openned /\ tlsCfg THEN 1 ELSE 0

\* A direct Open call returned nil on a server with a supplied listener and
\* a TLS configuration: Opened has fired and the listener is wrapped.
C15_Witness ==
    /\ ListenerSupplied /\ tlsCfg /\ handler
    /\ openRet = "nil" /\ openned /\ tlsWraps = 1 /\ serveCalls = 0

\* C17: the counter equals the number of connections for which Add(1) has
\* run and whose unit has not returned, and is never negative.
C17_CounterIsOutstandingUnits ==
    /\ wgroup = Cardinality({c \in Conns : UnitCounted(c)})
    /\ wgroup >= 0

\* One handler has failed and released the counter, another is running.
C17_Witness ==
    /\ wgroup = 1 /\ unit[1] = "failed" /\ unit[2] = "running"

\* C18: Accept returns a connection, and its unit is dispatched, only in a
\* state where Serving has fired and Stopped has not.
C18_DispatchWhileServing ==
    [][ \A c \in Conns :
           /\ (unit[c] = "none" /\ unit'[c] # "none") => (serving /\ ~stopped)
           /\ (unit[c] = "accepted" /\ unit'[c] # "accepted") =>
                 (unit'[c] = "spawned" /\ serving /\ ~stopped) ]_vars

\* The second connection was just dispatched, during the first Serve call.
C18_Witness ==
    /\ unit[2] = "spawned" /\ pcS = "select" /\ serveCalls = 1
    /\ serving /\ ~stopped

\* C19: when Close takes its serving branch with the cancellation handle of
\* a Serve call stored (the loop of that call is running or has ended), then
\* Stopped eventually fires, Serve eventually has returned, and Close
\* eventually has returned the Stopped signal.
C19_ShutdownTerminates ==
    /\ (pcC = "close_listener" /\ ctxCancel # 0) ~> stopped
    /\ (pcC = "close_listener" /\ ctxCancel # 0) ~> (pcS = "returned")
    /\ (pcC = "close_listener" /\ ctxCancel # 0) ~>
           (pcC = "returned" /\ closeRet = "stopped.Done")

\* Close was called while Serve was blocked in Accept with a handler
\* running; Serve and Close have returned and the signal is satisfied.
C19_Witness ==
    /\ lnClosedInAccept /\ pcS = "returned" /\ serveCalls = 1
    /\ pcC = "returned" /\ closeCalls = 1 /\ CloseSignalSatisfied
    /\ closeRet = "stopped.Done"
    /\ unit[1] \in {"ok", "failed"}

\* C16: after any sequence of options every field holds the last
\* non-degenerate value given for it (the default when none was given).
C16_LastNonDegenerateWins == cfg = given

\* C20: with tracing, every handler is invoked with a ctx carrying the span
\* of its own connection, every span is finished at most once, and exactly
\* once when its unit has returned, and the ctx of the accept loop carries
\* no unit's span.
C20_SpanPerConnection ==
    /\ \A c \in Conns : invoked[c] >= 1 => handlerSpan[c] = c
    /\ \A c \in Conns : finished[c] <= 1
    /\ \A c \in Conns : unit[c] \in {"ok", "failed"} => finished[c] = 1
    /\ ctxSpan = 0
====
